---------------------------- MODULE Spec2Model ----------------------------
(***************************************************************************)
(* A model of the discord-irc bridge (lib/bot.js): construction of the bot *)
(* from its options, and the handlers that relay Discord messages to IRC   *)
(* and IRC messages, notices, actions and invites to Discord.              *)
(*                                                                         *)
(* JavaScript strings are sequences of one-character strings, so that the  *)
(* string operations of the code (replace, split, toLowerCase, charCodeAt, *)
(* the regular expressions) are computed character by character.           *)
(***************************************************************************)
EXTENDS Integers, Sequences, FiniteSets, TLC

(***************************************************************************)
(* The state                                                               *)
(***************************************************************************)

VARIABLES
  options,            \* the options object given to the constructor
  phase,              \* "new", "failed", "constructed", "connected" or "crashed"
  channelMapping,     \* this.channelMapping
  invertedMapping,    \* this.invertedMapping
  commandCharacters,  \* this.commandCharacters
  ircNickColor,       \* this.ircNickColor
  channels,           \* this.channels
  event,              \* the event whose listener ran last
  said,               \* the ircClient.say calls of that listener, in order
  sent,               \* its sendMessage calls, in order
  joined,             \* its ircClient.join calls
  logged,             \* its logger.info calls
  threw,              \* the error it raised, "" when none
  delivered,          \* history: the number of events whose calls are recorded
  outbox              \* history: the say and sendMessage calls recorded, in order

(***************************************************************************)
(* Characters and JavaScript string primitives                             *)
(***************************************************************************)

\* The three printable characters that are written by name.
DQUOTE == "dquote"
BSLASH == "bslash"
BTICK == "btick"

\* Printable ASCII, in code order from 32 (space) to 126 (~).
Ascii ==
  << " ", "!", DQUOTE, "#", "$", "%", "&", "'", "(", ")", "*", "+", ",", "-", ".", "/",
     "0", "1", "2", "3", "4", "5", "6", "7", "8", "9", ":", ";", "<", "=", ">", "?",
     "@", "A", "B", "C", "D", "E", "F", "G", "H", "I", "J", "K", "L", "M", "N", "O",
     "P", "Q", "R", "S", "T", "U", "V", "W", "X", "Y", "Z", "[", BSLASH, "]", "^", "_",
     BTICK, "a", "b", "c", "d", "e", "f", "g", "h", "i", "j", "k", "l", "m", "n", "o",
     "p", "q", "r", "s", "t", "u", "v", "w", "x", "y", "z", "{", "|", "}", "~" >>

\* The two IRC control characters irc.colors uses: \u0003 (colour) and \u000f (reset).
ETX == "\\u0003"
SI == "\\u000f"

\* String.prototype.charCodeAt for one character.
CharCode(c) ==
  CASE c = "\n" -> 10
    [] c = "\r" -> 13
    [] c = "\t" -> 9
    [] c = ETX -> 3
    [] c = SI -> 15
    [] OTHER -> 31 + (CHOOSE i \in 1..Len(Ascii) : Ascii[i] = c)

IsDigit(c) == CharCode(c) \in 48..57
IsUpper(c) == CharCode(c) \in 65..90
\* \w of a JavaScript regular expression: [A-Za-z0-9_]
IsWord(c) == IsDigit(c) \/ IsUpper(c) \/ CharCode(c) \in 97..122 \/ c = "_"
\* \s of a JavaScript regular expression (the ASCII part)
IsSpace(c) == c \in {" ", "\n", "\r", "\t"}

\* String.prototype.toLowerCase, one character and a whole string.
LowerChar(c) == IF IsUpper(c) THEN Ascii[CharCode(c) + 32 - 31] ELSE c
toLowerCase(s) == [i \in 1..Len(s) |-> LowerChar(s[i])]

\* The value of a missing property or of a lookup that finds nothing.
Undefined == << "\\undefined" >>

\* JavaScript truthiness of a string-or-undefined value: the empty string and undefined are falsy.
Truthy(v) == v # Undefined /\ v # << >>

\* s.substring(from) with a 1-based index: the suffix starting at position from.
Suffix(s, from) == SubSeq(s, from, Len(s))

\* Whether p occurs in s at (1-based) position i.
OccursAt(s, i, p) ==
  /\ i >= 1
  /\ i + Len(p) - 1 <= Len(s)
  /\ SubSeq(s, i, i + Len(p) - 1) = p

\* String.prototype.indexOf(p), 1-based; 0 when p does not occur.
IndexOf(s, p) ==
  IF \E i \in 1..(Len(s) + 1) : OccursAt(s, i, p)
    THEN CHOOSE i \in 1..(Len(s) + 1) :
           OccursAt(s, i, p) /\ \A j \in 1..(i - 1) : ~OccursAt(s, j, p)
    ELSE 0

\* The expansion of a replacement string's $-patterns ($$, $&, $-backtick, $-quote) by
\* String.prototype.replace when the pattern is a string (there are no groups).
RECURSIVE ExpandReplacement(_, _, _, _)
ExpandReplacement(r, matched, before, after) ==
  IF r = << >> THEN << >>
  ELSE IF Head(r) = "$" /\ Len(r) >= 2 /\ r[2] \in {"$", "&", BTICK, "'"}
    THEN (CASE r[2] = "$" -> << "$" >>
            [] r[2] = "&" -> matched
            [] r[2] = BTICK -> before
            [] r[2] = "'" -> after)
         \o ExpandReplacement(Suffix(r, 3), matched, before, after)
    ELSE << Head(r) >> \o ExpandReplacement(Tail(r), matched, before, after)

\* String.prototype.replace(p, r) for a string pattern p: only the first
\* occurrence of p is replaced.
ReplaceFirst(s, p, r) ==
  LET i == IndexOf(s, p) IN
  IF i = 0 THEN s
  ELSE LET before == SubSeq(s, 1, i - 1)
           after == Suffix(s, i + Len(p))
       IN before \o ExpandReplacement(r, p, before, after) \o after

\* ircChan.split(' ')[0]: the text before the first space.
SplitFirst(s) ==
  LET i == IndexOf(s, << " " >>) IN
  IF i = 0 THEN s ELSE SubSeq(s, 1, i - 1)

\* The number of consecutive digits (\d) of s from position i on.
RECURSIVE DigitRun(_, _)
DigitRun(s, i) ==
  IF i <= Len(s) /\ IsDigit(s[i]) THEN 1 + DigitRun(s, i + 1) ELSE 0

\* The number of consecutive word characters (\w) of s from position i on.
RECURSIVE WordRun(_, _)
WordRun(s, i) ==
  IF i <= Len(s) /\ IsWord(s[i]) THEN 1 + WordRun(s, i + 1) ELSE 0

\* The number of consecutive non-whitespace characters ([^\s]) of s from position i on.
RECURSIVE NonSpaceRun(_, _)
NonSpaceRun(s, i) ==
  IF i <= Len(s) /\ ~IsSpace(s[i]) THEN 1 + NonSpaceRun(s, i + 1) ELSE 0

(***************************************************************************)
(* JavaScript objects used as maps: a sequence of <<key, value>> entries   *)
(* in insertion order, the order in which lodash iterates them.            *)
(***************************************************************************)

HasKey(obj, k) == \E i \in 1..Len(obj) : obj[i][1] = k

\* obj[k]: the value stored under k, undefined when there is none.
Get(obj, k) ==
  IF HasKey(obj, k)
    THEN obj[CHOOSE i \in 1..Len(obj) : obj[i][1] = k][2]
    ELSE Undefined

\* obj[k] = v: an existing key keeps its place, a new key is added last.
Put(obj, k, v) ==
  IF HasKey(obj, k)
    THEN [i \in 1..Len(obj) |-> IF obj[i][1] = k THEN << k, v >> ELSE obj[i]]
    ELSE Append(obj, << k, v >>)

\* _.invert(obj): entry by entry, result[value] = key; a later entry with the
\* same value overwrites an earlier one.
RECURSIVE InvertFrom(_, _, _)
InvertFrom(obj, i, acc) ==
  IF i > Len(obj) THEN acc
  ELSE InvertFrom(obj, i + 1, Put(acc, obj[i][2], obj[i][1]))

\* A faulty inversion: of the raw option, join keys and capitals included.
Invert_Raw(obj) == InvertFrom(options.channelMapping, 1, << >>)

Invert(obj) == InvertFrom(obj, 1, << >>)

(***************************************************************************)
(* The bot's configuration                                                 *)
(***************************************************************************)

\* A faulty list of required fields: the Discord token is forgotten.
REQUIRED_FIELDS_NoToken == << "server", "nickname", "channelMapping" >>

REQUIRED_FIELDS == << "server", "nickname", "channelMapping", "discordToken" >>

NICK_COLORS ==
  << "light_blue", "dark_blue", "light_red", "dark_red", "light_green",
     "dark_green", "magenta", "light_magenta", "orange", "yellow", "cyan", "light_cyan" >>

\* !options[field] is false: the field is there and, for a string, not empty
\* (a mapping object is truthy even when it has no entries).
HasField(opts, field) ==
  /\ field \notin opts.missing
  /\ field = "channelMapping" \/ opts[field] # << >>

\* The first required field the constructor finds missing, "" when none is.
MissingField(opts) ==
  IF \E i \in 1..Len(REQUIRED_FIELDS) : ~HasField(opts, REQUIRED_FIELDS[i])
    THEN REQUIRED_FIELDS[CHOOSE i \in 1..Len(REQUIRED_FIELDS) :
           /\ ~HasField(opts, REQUIRED_FIELDS[i])
           /\ \A j \in 1..(i - 1) : HasField(opts, REQUIRED_FIELDS[j])]
    ELSE ""

\* validateChannelMapping: at least one pair, no empty Discord key and no empty
\* IRC channel name once the join key is split off.
ValidChannelMapping(mapping) ==
  /\ Len(mapping) >= 1
  /\ \A i \in 1..Len(mapping) :
       /\ mapping[i][1] # << >>
       /\ SplitFirst(mapping[i][2]) # << >>

\* A faulty stored name: lower-cased, but the join key is kept.
StripAndLower_KeepKey(ircChan) == toLowerCase(ircChan)

\* The _.forOwn loop of the constructor: channel passwords are removed and the
\* IRC channel names lower-cased.
StripAndLower(ircChan) == toLowerCase(SplitFirst(ircChan))

RECURSIVE BuildChannelMapping(_, _, _)
BuildChannelMapping(raw, i, acc) ==
  IF i > Len(raw) THEN acc
  ELSE BuildChannelMapping(raw, i + 1, Put(acc, raw[i][1], StripAndLower(raw[i][2])))

\* this.ircNickColor = options.ircNickColor !== false
NickColorOption(opts) == opts.ircNickColor # "false"

\* this.commandCharacters = options.commandCharacters || []
CommandCharactersOption(opts) ==
  IF opts.commandCharacters = Undefined THEN << >> ELSE opts.commandCharacters

(***************************************************************************)
(* The Discord client's directory: users, the guild's members, channels    *)
(***************************************************************************)

BotId == << "1" >>

\* this.discord.users, in collection order.
DiscordUsers ==
  << [id |-> BotId, username |-> << "b", "o", "t" >>],
     [id |-> << "2" >>, username |-> << "a", "l" >>],
     [id |-> << "3" >>, username |-> << "b", "o", "b" >>],
     [id |-> << "4" >>, username |-> << "c", "a", "t" >>],
     [id |-> << "5" >>, username |-> << "d", "a", "n" >>] >>

\* guild.members of the one guild, in collection order; a member without a
\* nickname has nickname null. User 4 is known to the client but is no member.
GuildMembers ==
  << [id |-> BotId, nickname |-> Undefined],
     [id |-> << "2" >>, nickname |-> << "A", "l" >>],
     [id |-> << "3" >>, nickname |-> Undefined],
     [id |-> << "5" >>, nickname |-> << "<", "#", "7", ">" >>] >>

\* this.discord.channels, in collection order.
DiscordChannels ==
  << [id |-> << "6" >>, name |-> << "d", "e", "v" >>, type |-> "voice"],
     [id |-> << "7" >>, name |-> << "d", "e", "v" >>, type |-> "text"],
     [id |-> << "8" >>, name |-> << "v", "c" >>, type |-> "voice"] >>

\* guild.members.find('id', id): the index of the first member with that id, 0
\* when find returns null.
FindMemberById(id) ==
  IF \E i \in 1..Len(GuildMembers) : GuildMembers[i].id = id
    THEN CHOOSE i \in 1..Len(GuildMembers) :
           /\ GuildMembers[i].id = id
           /\ \A j \in 1..(i - 1) : GuildMembers[j].id # id
    ELSE 0

\* guild.members.find('nickname', search)
FindMemberByNickname(search) ==
  IF \E i \in 1..Len(GuildMembers) : GuildMembers[i].nickname = search
    THEN CHOOSE i \in 1..Len(GuildMembers) :
           /\ GuildMembers[i].nickname = search
           /\ \A j \in 1..(i - 1) : GuildMembers[j].nickname # search
    ELSE 0

\* this.discord.users.find('username', search)
FindUserByUsername(search) ==
  IF \E i \in 1..Len(DiscordUsers) : DiscordUsers[i].username = search
    THEN CHOOSE i \in 1..Len(DiscordUsers) :
           /\ DiscordUsers[i].username = search
           /\ \A j \in 1..(i - 1) : DiscordUsers[j].username # search
    ELSE 0

\* this.discord.channels.get(channelId)
GetChannel(channelId) ==
  IF \E i \in 1..Len(DiscordChannels) : DiscordChannels[i].id = channelId
    THEN CHOOSE i \in 1..Len(DiscordChannels) : DiscordChannels[i].id = channelId
    ELSE 0

\* A faulty lookup: the kind of the channel is not looked at.
FindTextChannel_AnyKind(name) ==
  IF \E i \in 1..Len(DiscordChannels) : DiscordChannels[i].name = name
    THEN CHOOSE i \in 1..Len(DiscordChannels) :
           /\ DiscordChannels[i].name = name
           /\ \A j \in 1..(i - 1) : DiscordChannels[j].name # name
    ELSE 0

\* this.discord.channels.filter(c => c.type === 'text').find('name', name)
FindTextChannel(name) ==
  IF \E i \in 1..Len(DiscordChannels) :
       DiscordChannels[i].type = "text" /\ DiscordChannels[i].name = name
    THEN CHOOSE i \in 1..Len(DiscordChannels) :
           /\ DiscordChannels[i].type = "text" /\ DiscordChannels[i].name = name
           /\ \A j \in 1..(i - 1) :
                ~(DiscordChannels[j].type = "text" /\ DiscordChannels[j].name = name)
    ELSE 0

(***************************************************************************)
(* Discord to IRC                                                          *)
(***************************************************************************)

\* A faulty display name: the guild nickname is ignored.
getDiscordNicknameOnServer_UsernameOnly(user) == user.username

\* Bot.getDiscordNicknameOnServer(user, guild)
getDiscordNicknameOnServer(user) ==
  LET m == FindMemberById(user.id) IN
  IF m # 0
    THEN IF Truthy(GuildMembers[m].nickname) THEN GuildMembers[m].nickname
         ELSE user.username
    ELSE user.username

\* The three replace calls parseText makes for one mentioned user.
ReplaceMention(content, mention) ==
  LET displayName == getDiscordNicknameOnServer(mention)
      at == << "@" >> \o displayName
  IN ReplaceFirst(
       ReplaceFirst(
         ReplaceFirst(content, << "<", "@" >> \o mention.id \o << ">" >>, at),
         << "<", "@", "!" >> \o mention.id \o << ">" >>, at),
       << "<", "@", "&" >> \o mention.id \o << ">" >>, at)

\* message.mentions.users.reduce(..., message.content)
RECURSIVE ReduceMentions(_, _, _)
ReduceMentions(content, users, i) ==
  IF i > Len(users) THEN content
  ELSE ReduceMentions(ReplaceMention(content, users[i]), users, i + 1)

\* .replace(/\n|\r\n|\r/g, ' ')
RECURSIVE FoldLineBreaks(_)
FoldLineBreaks(s) ==
  IF s = << >> THEN << >>
  ELSE IF Head(s) = "\n" THEN << " " >> \o FoldLineBreaks(Tail(s))
  ELSE IF Head(s) = "\r" /\ Len(s) >= 2 /\ s[2] = "\n"
    THEN << " " >> \o FoldLineBreaks(Suffix(s, 3))
  ELSE IF Head(s) = "\r" THEN << " " >> \o FoldLineBreaks(Tail(s))
  ELSE << Head(s) >> \o FoldLineBreaks(Tail(s))

\* The length of a match of /<#(\d+)>/ at position i of s, 0 when there is none.
ChannelRefAt(s, i) ==
  IF OccursAt(s, i, << "<", "#" >>)
    THEN LET n == DigitRun(s, i + 2) IN
         IF n >= 1 /\ OccursAt(s, i + 2 + n, << ">" >>) THEN n + 3 ELSE 0
    ELSE 0

\* A faulty channel rule: a reference that resolves to no channel is let through.
ChannelRefFails_Never(s, i) == FALSE

\* Whether the callback of .replace(/<#(\d+)>/g, ...) reads channel.name of an
\* undefined channel for some match, which raises a TypeError.
RECURSIVE ChannelRefFails(_, _)
ChannelRefFails(s, i) ==
  IF i > Len(s) THEN FALSE
  ELSE LET n == ChannelRefAt(s, i) IN
       IF n = 0 THEN ChannelRefFails(s, i + 1)
       ELSE \/ GetChannel(SubSeq(s, i + 2, i + n - 2)) = 0
            \/ ChannelRefFails(s, i + n)

\* .replace(/<#(\d+)>/g, (match, channelId) => `#${channel.name}`)
RECURSIVE ReplaceChannelRefs(_, _)
ReplaceChannelRefs(s, i) ==
  IF i > Len(s) THEN << >>
  ELSE LET n == ChannelRefAt(s, i) IN
       IF n = 0 THEN << s[i] >> \o ReplaceChannelRefs(s, i + 1)
       ELSE LET c == GetChannel(SubSeq(s, i + 2, i + n - 2)) IN
            << "#" >> \o (IF c = 0 THEN Undefined ELSE DiscordChannels[c].name)
              \o ReplaceChannelRefs(s, i + n)

\* The length of a match of /<(:\w+:)\d+>/ at position i of s, 0 when there is none.
EmoteAt(s, i) ==
  IF OccursAt(s, i, << "<", ":" >>)
    THEN LET w == WordRun(s, i + 2)
             d == DigitRun(s, i + 3 + w)
         IN IF /\ w >= 1
               /\ OccursAt(s, i + 2 + w, << ":" >>)
               /\ d >= 1
               /\ OccursAt(s, i + 3 + w + d, << ">" >>)
              THEN w + d + 4
              ELSE 0
    ELSE 0

\* .replace(/<(:\w+:)\d+>/g, (match, emoteName) => emoteName)
RECURSIVE ReplaceEmotes(_, _)
ReplaceEmotes(s, i) ==
  IF i > Len(s) THEN << >>
  ELSE LET n == EmoteAt(s, i) IN
       IF n = 0 THEN << s[i] >> \o ReplaceEmotes(s, i + 1)
       ELSE SubSeq(s, i + 1, i + 2 + WordRun(s, i + 2)) \o ReplaceEmotes(s, i + n)

\* parseText(message): threw is TRUE when a channel reference resolves to no
\* channel, and then there is no text.
parseText(message) ==
  LET text == ReduceMentions(message.content, message.mentions, 1)
      folded == FoldLineBreaks(text)
  IN IF ChannelRefFails(folded, 1)
       THEN [threw |-> TRUE, text |-> << >>]
       ELSE [threw |-> FALSE,
             text |-> ReplaceEmotes(ReplaceChannelRefs(folded, 1), 1)]

\* isCommandMessage(message): message[0] is one of the command characters.
isCommandMessage(commandChars, message) ==
  /\ message # << >>
  /\ \E i \in 1..Len(commandChars) : commandChars[i] = message[1]

\* irc.colors.wrap(color, text): the colour's code, the text, the reset code.
ColorCode(color) ==
  CASE color = "light_blue" -> << ETX, "1", "2" >>
    [] color = "dark_blue" -> << ETX, "0", "2" >>
    [] color = "light_red" -> << ETX, "0", "4" >>
    [] color = "dark_red" -> << ETX, "0", "5" >>
    [] color = "light_green" -> << ETX, "0", "9" >>
    [] color = "dark_green" -> << ETX, "0", "3" >>
    [] color = "magenta" -> << ETX, "0", "6" >>
    [] color = "light_magenta" -> << ETX, "1", "3" >>
    [] color = "orange" -> << ETX, "0", "7" >>
    [] color = "yellow" -> << ETX, "0", "8" >>
    [] color = "cyan" -> << ETX, "1", "0" >>
    [] color = "light_cyan" -> << ETX, "1", "1" >>

ColorsWrap(color, text) == ColorCode(color) \o text \o << SI >>

\* A faulty colour index: the length of the name is left out.
ColorIndex_CodeOnly(nickname) == CharCode(nickname[1]) % Len(NICK_COLORS)

\* (nickname.charCodeAt(0) + nickname.length) % NICK_COLORS.length, 0-based.
ColorIndex(nickname) == (CharCode(nickname[1]) + Len(nickname)) % Len(NICK_COLORS)

\* The display name of sendToIRC: coloured when ircNickColor is on.
DisplayUsername(nickColor, nickname) ==
  IF nickColor
    THEN ColorsWrap(NICK_COLORS[ColorIndex(nickname) + 1], nickname)
    ELSE nickname

\* A faulty self check: the author's name is compared with the bot's id.
IsOwnMessage_ByName(message) == message.author.username = BotId

\* author.id === this.discord.user.id
IsOwnMessage(message) == message.author.id = BotId

\* A faulty lookup: a channel that is not mapped falls back to the first entry.
TargetIrcChannel_Fallback(mapping, message) ==
  IF HasKey(mapping, << "#" >> \o message.channel)
    THEN Get(mapping, << "#" >> \o message.channel)
    ELSE mapping[1][2]

\* this.channelMapping[`#${message.channel.name}`]
TargetIrcChannel(mapping, message) == Get(mapping, << "#" >> \o message.channel)

\* `Command sent from Discord by ${nickname}:`
Prelude(nickname) ==
  << "C", "o", "m", "m", "a", "n", "d", " ", "s", "e", "n", "t", " ",
     "f", "r", "o", "m", " ", "D", "i", "s", "c", "o", "r", "d", " ",
     "b", "y", " " >> \o nickname \o << ":" >>

\* `<${displayUsername}> ${text}`
Bracketed(displayUsername, text) ==
  << "<" >> \o displayUsername \o << ">", " " >> \o text

\* A faulty command branch: the command itself is sent with the name in front.
CommandLines_Named(ircChannel, nickname, text) ==
  << [channel |-> ircChannel, text |-> Prelude(nickname)],
     [channel |-> ircChannel, text |-> Bracketed(nickname, text)] >>

\* The two say calls of the command branch.
CommandLines(ircChannel, nickname, text) ==
  << [channel |-> ircChannel, text |-> Prelude(nickname)],
     [channel |-> ircChannel, text |-> text] >>

\* A faulty body branch: an empty text is sent too.
BodyLines_Always(ircChannel, displayUsername, text) ==
  << [channel |-> ircChannel, text |-> Bracketed(displayUsername, text)] >>

\* The say call of the body, made only when the text is not empty.
BodyLines(ircChannel, displayUsername, text) ==
  IF text # << >>
    THEN << [channel |-> ircChannel, text |-> Bracketed(displayUsername, text)] >>
    ELSE << >>

\* A faulty attachment loop: only the first attachment is said.
AttachmentLines_FirstOnly(ircChannel, displayUsername, attachments) ==
  IF attachments = << >> THEN << >>
  ELSE << [channel |-> ircChannel, text |-> Bracketed(displayUsername, attachments[1])] >>

\* message.attachments.forEach: one say call per attachment, in collection order.
AttachmentLines(ircChannel, displayUsername, attachments) ==
  [i \in 1..Len(attachments) |->
     [channel |-> ircChannel, text |-> Bracketed(displayUsername, attachments[i])]]

\* What sendToIRC does with one Discord message: the say calls it makes, in
\* order, and whether it raised an error.
sendToIRC(mapping, commandChars, nickColor, message) ==
  LET ircChannel == TargetIrcChannel(mapping, message)
      nickname == getDiscordNicknameOnServer(message.author)
      parsed == parseText(message)
      text == parsed.text
      displayUsername == DisplayUsername(nickColor, nickname)
  IN IF IsOwnMessage(message) THEN [said |-> << >>, threw |-> ""]
     ELSE IF ~Truthy(ircChannel) THEN [said |-> << >>, threw |-> ""]
     ELSE IF parsed.threw THEN [said |-> << >>, threw |-> "TypeError"]
     ELSE IF isCommandMessage(commandChars, text)
       THEN [said |-> CommandLines(ircChannel, nickname, text), threw |-> ""]
     ELSE [said |-> BodyLines(ircChannel, displayUsername, text)
                      \o AttachmentLines(ircChannel, displayUsername,
                                         message.attachments),
           threw |-> ""]

(***************************************************************************)
(* IRC to Discord                                                          *)
(***************************************************************************)

\* Whether position k of s holds a word character (\w).
WordAt(s, k) == k >= 1 /\ k <= Len(s) /\ IsWord(s[k])

\* \b between positions k and k + 1 of s.
BoundaryAfter(s, k) == WordAt(s, k) # WordAt(s, k + 1)

\* The length of the match of /@[^\s]+\b/ at position i of s, 0 when there is
\* none: the longest run of non-whitespace after the @ that ends at a word boundary.
MentionAt(s, i) ==
  IF s[i] = "@"
    THEN LET run == NonSpaceRun(s, i + 1)
             ends == {j \in 1..run : BoundaryAfter(s, i + j)}
         IN IF ends = {} THEN 0
            ELSE 1 + (CHOOSE j \in ends : \A k \in ends : k <= j)
    ELSE 0

\* String(guildMember) and String(user): the mention forms of discord.js.
MemberToString(m) ==
  << "<", "@" >> \o (IF Truthy(GuildMembers[m].nickname) THEN << "!" >> ELSE << >>)
    \o GuildMembers[m].id \o << ">" >>

UserToString(u) == << "<", "@" >> \o DiscordUsers[u].id \o << ">" >>

\* Whether the replace callback raises a TypeError for this match: the user found
\* by username is no member of the guild, and .nickname is read of null.
MentionThrows(match) ==
  LET search == Suffix(match, 2)
      user == FindUserByUsername(search)
  IN /\ FindMemberByNickname(search) = 0
     /\ user # 0
     /\ FindMemberById(DiscordUsers[user].id) = 0

\* The value the replace callback returns for a match, when it does not throw.
MentionReplacement(match) ==
  LET search == Suffix(match, 2)
      nickUser == FindMemberByNickname(search)
      user == FindUserByUsername(search)
  IN IF nickUser # 0 THEN MemberToString(nickUser)
     ELSE IF user # 0
       THEN LET nickname == GuildMembers[FindMemberById(DiscordUsers[user].id)].nickname
            IN IF ~Truthy(nickname) \/ nickname = search
                 THEN UserToString(user)
                 ELSE match
     ELSE match

\* Whether text.replace(/@[^\s]+\b/g, ...) raises a TypeError in its callback.
RECURSIVE ReplaceMentionsThrows(_, _)
ReplaceMentionsThrows(s, i) ==
  IF i > Len(s) THEN FALSE
  ELSE LET n == MentionAt(s, i) IN
       IF n = 0 THEN ReplaceMentionsThrows(s, i + 1)
       ELSE \/ MentionThrows(SubSeq(s, i, i + n - 1))
            \/ ReplaceMentionsThrows(s, i + n)

\* text.replace(/@[^\s]+\b/g, ...), when the callback does not throw.
RECURSIVE ReplaceMentions(_, _)
ReplaceMentions(s, i) ==
  IF i > Len(s) THEN << >>
  ELSE LET n == MentionAt(s, i) IN
       IF n = 0 THEN << s[i] >> \o ReplaceMentions(s, i + 1)
       ELSE MentionReplacement(SubSeq(s, i, i + n - 1)) \o ReplaceMentions(s, i + n)

\* What sendToDiscord does with one IRC message: the sendMessage calls it makes
\* (the channel's id and the text), the logger.info calls, and whether it raised
\* an error.
sendToDiscord(inverted, author, channel, text) ==
  LET discordChannelName == Get(inverted, toLowerCase(channel))
      discordChannel == FindTextChannel(Suffix(discordChannelName, 2))
      withAuthor ==
        << "*", "*", "<" >> \o author \o << ">", "*", "*", " " >>
          \o ReplaceMentions(text, 1)
  IN IF ~Truthy(discordChannelName)
       THEN [sent |-> << >>, info |-> 0, threw |-> ""]
     ELSE IF discordChannel = 0
       THEN [sent |-> << >>, info |-> 1, threw |-> ""]
     ELSE IF ReplaceMentionsThrows(text, 1)
       THEN [sent |-> << >>, info |-> 0, threw |-> "TypeError"]
     ELSE [sent |-> << [channel |-> DiscordChannels[discordChannel].id,
                        text |-> withAuthor] >>,
           info |-> 0, threw |-> ""]

\* The invite listener: the channels it joins.
onInvite(inverted, channel) ==
  IF ~Truthy(Get(inverted, channel)) THEN << >> ELSE << channel >>

(***************************************************************************)
(* Inputs: the configurations the bot is constructed from and the events   *)
(* the two clients deliver                                                 *)
(***************************************************************************)

\* The most attachments a Discord message carries.
MaxAttachments == 2
\* The most pairs a raw channel mapping holds.
MaxPairs == 2
\* The number of events whose calls are recorded in the history.
MaxEvents == 3

\* All sequences over S of length at most n.
SeqsUpTo(S, n) == UNION {[1..k -> S] : k \in 0..n}

\* All sequences over S in which no element occurs twice (a collection keyed
\* by id holds nobody twice).
DistinctSeqs(S) ==
  {q \in SeqsUpTo(S, Cardinality(S)) : \A i, j \in 1..Len(q) : i # j => q[i] # q[j]}

\* All concatenations of at most two of the pieces.
TwoPieces(pieces) == {p \o q : p, q \in pieces \cup {<< >>}}

Str_dev == << "#", "d", "e", "v" >>
Str_vc == << "#", "v", "c" >>
Str_gone == << "#", "g", "o", "n", "e" >>
Str_irc == << "#", "i", "r", "c" >>
Str_fm == << "#", "f", "m" >>
Str_void == << "#", "v", "o", "i", "d" >>

\* A mapping with a join key and capitals, a mapping to a Discord channel that
\* exists only as a voice channel, and one to a Discord channel that is gone.
RelayMapping ==
  << << Str_dev, << "#", "I", "r", "c", " ", "p", "w" >> >>,
     << Str_vc, Str_fm >>,
     << Str_gone, Str_void >> >>

BaseOptions ==
  [server |-> << "s" >>, nickname |-> << "n" >>, discordToken |-> << "t" >>,
   channelMapping |-> RelayMapping, missing |-> {},
   ircNickColor |-> "absent", commandCharacters |-> << "!" >>]

\* The configurations the relay is explored under, and two the constructor rejects.
RelayOptions ==
  { [BaseOptions EXCEPT !.ircNickColor = c, !.commandCharacters = cc] :
      c \in {"absent", "false", "true"}, cc \in {Undefined, << "!" >>} }
  \cup { [BaseOptions EXCEPT !.missing = {"discordToken"}],
         [BaseOptions EXCEPT !.channelMapping = << >>] }

\* Discord message events.
MessageAuthors == {DiscordUsers[i] : i \in 1..4}
Mentionable == {DiscordUsers[2], DiscordUsers[5]}
MessageChannels == { << "d", "e", "v" >>, << "o", "f", "f" >> }
AttachmentUrls == { << "u", "/", "1" >>, << "u", "/", "2" >> }
DiscordPieces ==
  { << "h", "i" >>, << "!" >>, << " " >>, << "\n" >>, << "\r" >>,
    << "<", "@", "2", ">" >>, << "<", "@", "!", "5", ">" >>,
    << "<", "@", "&", "2", ">" >>,
    << "<", "#", "7", ">" >>, << "<", "#", "9", ">" >>,
    << "<", ":", "e", ":", "5", ">" >> }

DiscordMessages ==
  [author : MessageAuthors,
   channel : MessageChannels,
   content : TwoPieces(DiscordPieces),
   mentions : DistinctSeqs(Mentionable),
   attachments : SeqsUpTo(AttachmentUrls, MaxAttachments)]

\* IRC message, notice, action and invite events.
IrcAuthors == { << "n", "e", "o" >> }
IrcChannels ==
  { Str_irc, << "#", "I", "R", "C" >>, Str_fm, Str_void, << "#", "n", "o" >> }
IrcPieces ==
  { << "h", "i" >>, << " " >>, << "!" >>, << "@" >>,
    << "@", "A", "l" >>, << "@", "a", "l" >>, << "@", "b", "o", "b" >>,
    << "@", "c", "a", "t" >>, << "@", "z", "e", "d" >> }
IrcTexts == TwoPieces(IrcPieces)

(***************************************************************************)
(* The state machine                                                       *)
(***************************************************************************)

botVars == << channelMapping, invertedMapping, commandCharacters, ircNickColor, channels >>
callVars == << event, said, sent, joined, logged, threw >>
histVars == << delivered, outbox >>
vars == << options, phase, botVars, callVars, histVars >>

NoEvent == [type |-> "none"]

NoCalls ==
  /\ said = << >>
  /\ sent = << >>
  /\ joined = << >>
  /\ logged = 0

InitWith(optionSet) ==
  /\ options \in optionSet
  /\ phase = "new"
  /\ channelMapping = << >>
  /\ invertedMapping = << >>
  /\ commandCharacters = << >>
  /\ ircNickColor = FALSE
  /\ channels = << >>
  /\ event = NoEvent
  /\ NoCalls
  /\ threw = ""
  /\ delivered = 0
  /\ outbox = << >>

Init == InitWith(RelayOptions)

\* new Bot(options)
Construct ==
  /\ phase = "new"
  /\ IF MissingField(options) # "" \/ ~ValidChannelMapping(options.channelMapping)
       THEN /\ phase' = "failed"
            /\ threw' = "ConfigurationError"
            /\ UNCHANGED botVars
       ELSE /\ phase' = "constructed"
            /\ threw' = ""
            /\ commandCharacters' = CommandCharactersOption(options)
            /\ ircNickColor' = NickColorOption(options)
            /\ channels' = [i \in 1..Len(options.channelMapping) |->
                              options.channelMapping[i][2]]
            /\ channelMapping' = BuildChannelMapping(options.channelMapping, 1, << >>)
            /\ invertedMapping' =
                 Invert(BuildChannelMapping(options.channelMapping, 1, << >>))
  /\ UNCHANGED << options, event, said, sent, joined, logged >>

\* bot.connect(): the clients are created and the listeners attached.
Connect ==
  /\ phase = "constructed"
  /\ phase' = "connected"
  /\ UNCHANGED << options, botVars, callVars >>

\* this.discord.on('message', ...)
OnDiscordMessage(messages) ==
  /\ phase = "connected"
  /\ event = NoEvent
  /\ \E message \in messages :
       LET r == sendToIRC(channelMapping, commandCharacters, ircNickColor, message)
       IN /\ event' = [type |-> "discord", message |-> message]
          /\ said' = r.said
          /\ threw' = r.threw
  /\ UNCHANGED << options, phase, botVars, sent, joined, logged >>

\* The call of sendToDiscord the three IRC listeners share.
RelayFromIrc(type, author, to, text, relayed) ==
  LET r == sendToDiscord(invertedMapping, author, to, relayed)
  IN /\ event' = [type |-> type, author |-> author, to |-> to, text |-> text]
     /\ sent' = r.sent
     /\ logged' = r.info
     /\ threw' = r.threw
     /\ UNCHANGED << options, phase, botVars, said, joined >>

\* this.ircClient.on('message', this.sendToDiscord.bind(this))
OnIrcMessage(authors, targets, texts) ==
  /\ phase = "connected"
  /\ event = NoEvent
  /\ \E author \in authors, to \in targets, text \in texts :
       RelayFromIrc("message", author, to, text, text)

\* A faulty notice listener: the text is passed on without the asterisks.
OnIrcNotice_Unwrapped(authors, targets, texts) ==
  /\ phase = "connected"
  /\ event = NoEvent
  /\ \E author \in authors, to \in targets, text \in texts :
       RelayFromIrc("notice", author, to, text, text)

\* this.ircClient.on('notice', ...)
OnIrcNotice(authors, targets, texts) ==
  /\ phase = "connected"
  /\ event = NoEvent
  /\ \E author \in authors, to \in targets, text \in texts :
       RelayFromIrc("notice", author, to, text, << "*" >> \o text \o << "*" >>)

\* this.ircClient.on('action', ...)
OnIrcAction(authors, targets, texts) ==
  /\ phase = "connected"
  /\ event = NoEvent
  /\ \E author \in authors, to \in targets, text \in texts :
       RelayFromIrc("action", author, to, text, << "_" >> \o text \o << "_" >>)

\* this.ircClient.on('invite', ...)
OnIrcInvite(targets, authors) ==
  /\ phase = "connected"
  /\ event = NoEvent
  /\ \E channel \in targets, from \in authors :
       /\ event' = [type |-> "invite", channel |-> channel, from |-> from]
       /\ joined' = onInvite(invertedMapping, channel)
  /\ UNCHANGED << options, phase, botVars, said, sent, logged, threw >>

\* An error raised in a listener is caught nowhere in the bot: it leaves the
\* listener and reaches the client that emitted the event. Either that client
\* contains it (the listener is over, see Return) or the process ends with it.
UncaughtException ==
  /\ phase = "connected"
  /\ event # NoEvent
  /\ threw # ""
  /\ phase' = "crashed"
  /\ UNCHANGED << options, botVars, callVars >>

\* The channel an event comes from: the network and the channel's name.
Origin(e) ==
  CASE e.type = "discord" -> << "discord", e.message.channel >>
    [] e.type = "invite" -> << "irc", e.channel >>
    [] OTHER -> << "irc", e.to >>

\* The calls the listener of the n-th event has just made, in the order in which
\* it made them, each with the number and the origin of the event.
Issued(n) ==
  [k \in 1..Len(said') |-> [event |-> n, origin |-> Origin(event'), call |-> said'[k]]]
    \o [k \in 1..Len(sent') |-> [event |-> n, origin |-> Origin(event'), call |-> sent'[k]]]

\* The listener returns to the event loop.
Return ==
  /\ phase = "connected"
  /\ event # NoEvent
  /\ event' = NoEvent
  /\ said' = << >>
  /\ sent' = << >>
  /\ joined' = << >>
  /\ logged' = 0
  /\ threw' = ""
  /\ UNCHANGED << options, phase, botVars >>

\* The history of calls is not kept.
Unrecorded == UNCHANGED histVars

\* A faulty order: the calls of the event just delivered are put before those
\* of the events delivered earlier, as if they were issued later than made.
Recorded_Deferred ==
  /\ delivered < MaxEvents
  /\ delivered' = delivered + 1
  /\ outbox' = Issued(delivered + 1) \o outbox

\* The history of calls is kept for the first MaxEvents events: the listener
\* makes its calls itself, one after the other, before it returns, so the calls
\* of the event just delivered follow all calls made before.
Recorded ==
  /\ delivered < MaxEvents
  /\ delivered' = delivered + 1
  /\ outbox' = outbox \o Issued(delivered + 1)

Next ==
  \/ Construct /\ Unrecorded
  \/ Connect /\ Unrecorded
  \/ OnDiscordMessage(DiscordMessages) /\ Unrecorded
  \/ OnIrcMessage(IrcAuthors, IrcChannels, IrcTexts) /\ Unrecorded
  \/ OnIrcNotice(IrcAuthors, IrcChannels, IrcTexts) /\ Unrecorded
  \/ OnIrcAction(IrcAuthors, IrcChannels, IrcTexts) /\ Unrecorded
  \/ OnIrcInvite(IrcChannels, IrcAuthors) /\ Unrecorded
  \/ UncaughtException /\ Unrecorded
  \/ Return /\ Unrecorded

Spec == Init /\ [][Next]_vars

(***************************************************************************)
(* A second specification: the constructor over a wide range of options,   *)
(* each followed by a few probing events.                                  *)
(***************************************************************************)

ConfigDiscordKeys == { Str_dev, << "#", "O", "p", "s" >>, << >> }
ConfigIrcChannels ==
  { Str_irc, << "#", "I", "r", "c", " ", "p", "w" >>, Str_fm, << " ", "p", "w" >>, << >> }

\* Raw channel mappings: at most MaxPairs entries, no Discord key twice (they
\* are the keys of one object).
ConfigMappings ==
  {m \in SeqsUpTo(ConfigDiscordKeys \X ConfigIrcChannels, MaxPairs) :
     \A i, j \in 1..Len(m) : i # j => m[i][1] # m[j][1]}

ConfigOptions ==
  { [BaseOptions EXCEPT !.channelMapping = m, !.missing = mi, !.server = sv] :
      m \in ConfigMappings,
      mi \in { {}, {"server"}, {"nickname"}, {"channelMapping"}, {"discordToken"} },
      sv \in { << "s" >>, << >> } }

ProbeMessages ==
  [author : {DiscordUsers[3]},
   channel : { << "d", "e", "v" >>, << "O", "p", "s" >>, << "o", "f", "f" >> },
   content : { << "h", "i" >> },
   mentions : { << >> },
   attachments : { << >>, << << "u", "/", "1" >> >> }]

ProbeTexts == { << "h", "i" >>, << "@", "c", "a", "t" >> }

InitConfig == InitWith(ConfigOptions)

NextConfig ==
  \/ Construct /\ Unrecorded
  \/ Connect /\ Unrecorded
  \/ OnDiscordMessage(ProbeMessages) /\ Unrecorded
  \/ OnIrcMessage(IrcAuthors, IrcChannels, ProbeTexts) /\ Unrecorded
  \/ OnIrcNotice(IrcAuthors, IrcChannels, ProbeTexts) /\ Unrecorded
  \/ OnIrcAction(IrcAuthors, IrcChannels, ProbeTexts) /\ Unrecorded
  \/ OnIrcInvite(IrcChannels, IrcAuthors) /\ Unrecorded
  \/ UncaughtException /\ Unrecorded
  \/ Return /\ Unrecorded

SpecConfig == InitConfig /\ [][NextConfig]_vars

(***************************************************************************)
(* A third specification: a few events of both networks, with the history  *)
(* of the calls made for them.                                             *)
(***************************************************************************)

\* Messages in two mapped Discord channels: a body with two attachments (three
\* lines), a body alone, and a body whose channel reference does not resolve.
OrderMessages ==
  [author : {DiscordUsers[3]},
   channel : { << "d", "e", "v" >>, << "v", "c" >> },
   content : { << "h", "i" >>, << "<", "#", "9", ">" >> },
   mentions : { << >> },
   attachments : { << >>, << << "u", "/", "1" >>, << "u", "/", "2" >> >> }]

OrderIrcChannels == { Str_irc }

InitOrder == InitWith({BaseOptions})

NextOrder ==
  \/ Construct /\ Unrecorded
  \/ Connect /\ Unrecorded
  \/ OnDiscordMessage(OrderMessages) /\ Recorded
  \/ OnIrcMessage(IrcAuthors, OrderIrcChannels, ProbeTexts) /\ Recorded
  \/ OnIrcNotice(IrcAuthors, OrderIrcChannels, ProbeTexts) /\ Recorded
  \/ OnIrcAction(IrcAuthors, OrderIrcChannels, ProbeTexts) /\ Recorded
  \/ OnIrcInvite(OrderIrcChannels, IrcAuthors) /\ Recorded
  \/ UncaughtException /\ Unrecorded
  \/ Return /\ Unrecorded

SpecOrder == InitOrder /\ [][NextOrder]_vars

(***************************************************************************)
(* What the properties below speak of                                      *)
(***************************************************************************)

\* The listener that ran last was the Discord message listener, for a message of
\* somebody other than the bot, in a Discord channel that is a key of the mapping.
RelayableDiscordMessage ==
  /\ event.type = "discord"
  /\ event.message.author.id # BotId
  /\ \E i \in 1..Len(channelMapping) :
       channelMapping[i][1] = << "#" >> \o event.message.channel

\* ... and its body has a transform (no channel reference failed to resolve).
TransformedDiscordMessage ==
  /\ RelayableDiscordMessage
  /\ ~parseText(event.message).threw

TransformedBody == parseText(event.message).text

\* The IRC channel the message's Discord channel is mapped to.
MappedIrcChannel ==
  LET i == CHOOSE i \in 1..Len(channelMapping) :
             channelMapping[i][1] = << "#" >> \o event.message.channel
  IN channelMapping[i][2]

\* The transformed body starts with one of the configured command characters.
RecognizedAsCommand ==
  /\ TransformedBody # << >>
  /\ TransformedBody[1] \in {commandCharacters[i] : i \in 1..Len(commandCharacters)}

\* The author's display name: the guild nickname when the author is a member
\* with a nickname, the username otherwise.
DisplayNameOf(user) ==
  IF \E i \in 1..Len(GuildMembers) :
       GuildMembers[i].id = user.id /\ GuildMembers[i].nickname # Undefined
    THEN GuildMembers[CHOOSE i \in 1..Len(GuildMembers) :
           GuildMembers[i].id = user.id /\ GuildMembers[i].nickname # Undefined].nickname
    ELSE user.username

AuthorName == DisplayNameOf(event.message.author)

CommandPrelude ==
  << "C", "o", "m", "m", "a", "n", "d", " ", "s", "e", "n", "t", " ",
     "f", "r", "o", "m", " ", "D", "i", "s", "c", "o", "r", "d", " ",
     "b", "y", " " >>

\* The codes of the twelve nick colours, in the order of the colour list.
NickColorCodes ==
  << << ETX, "1", "2" >>, << ETX, "0", "2" >>, << ETX, "0", "4" >>, << ETX, "0", "5" >>,
     << ETX, "0", "9" >>, << ETX, "0", "3" >>, << ETX, "0", "6" >>, << ETX, "1", "3" >>,
     << ETX, "0", "7" >>, << ETX, "0", "8" >>, << ETX, "1", "0" >>, << ETX, "1", "1" >> >>

\* The author's name as it is shown between < and >: plain, or wrapped in one of
\* the twelve colours.
ShownNames ==
  {AuthorName} \cup
  {NickColorCodes[k] \o AuthorName \o << SI >> : k \in 1..Len(NickColorCodes)}

(***************************************************************************)
(* Properties                                                              *)
(***************************************************************************)

\* C1: a Discord message whose author is the bot's own Discord user leads to no
\* say call, whatever its channel, body and attachments.
C1_OwnMessagesNeverSaid ==
  (event.type = "discord" /\ event.message.author.id = BotId) => said = << >>

\* A message of the bot itself in a mapped channel, with a body and attachments.
C1_Witness ==
  /\ event.type = "discord"
  /\ event.message.author.id = BotId
  /\ event.message.channel = << "d", "e", "v" >>
  /\ event.message.content = << "h", "i" >>
  /\ Len(event.message.attachments) = 2
  /\ said = << >>

\* C2: a Discord message whose channel #name is no key of the forward mapping,
\* and an IRC message, notice or action whose lower-cased channel is no key of
\* the inverse mapping, lead to no say and no sendMessage call and raise no error.
C2_UnmappedChannelsDropped ==
  /\ ( /\ event.type = "discord"
       /\ \A i \in 1..Len(channelMapping) :
            channelMapping[i][1] # << "#" >> \o event.message.channel )
     => (said = << >> /\ sent = << >> /\ threw = "")
  /\ ( /\ event.type \in {"message", "notice", "action"}
       /\ \A i \in 1..Len(invertedMapping) :
            invertedMapping[i][1] # toLowerCase(event.to) )
     => (said = << >> /\ sent = << >> /\ threw = "")

\* A message of another user in an unmapped Discord channel, with attachments and
\* a body whose channel reference does not resolve.
C2_Witness ==
  /\ event.type = "discord"
  /\ event.message.author.id = << "3" >>
  /\ event.message.channel = << "o", "f", "f" >>
  /\ event.message.content = << "<", "#", "9", ">" >>
  /\ Len(event.message.attachments) = 1
  /\ said = << >>
  /\ threw = ""

\* C3: when the transformed body of a relayable Discord message starts with a
\* command character, exactly two lines are said, both to the mapped IRC
\* channel: the prelude with the plain display name, then the transformed body
\* alone.
C3_CommandIsTwoPlainLines ==
  (TransformedDiscordMessage /\ RecognizedAsCommand) =>
    said = << [channel |-> MappedIrcChannel,
               text |-> CommandPrelude \o AuthorName \o << ":" >>],
              [channel |-> MappedIrcChannel, text |-> TransformedBody] >>

\* A command of a member with a nickname, with an attachment, colours being on.
C3_Witness ==
  /\ TransformedDiscordMessage
  /\ RecognizedAsCommand
  /\ ircNickColor
  /\ event.message.author.id = << "2" >>
  /\ event.message.content = << "!", "h", "i" >>
  /\ Len(event.message.attachments) = 1
  /\ Len(said) = 2

\* C4: for a relayable Discord message that is no command, a non-empty
\* transformed body is said once, as <name> body, before every attachment; each
\* attachment is said once, as <name> url, in the order of the attachment list;
\* an empty body is not said, so n attachments alone give exactly n lines.
C4_BodyThenAttachments ==
  (TransformedDiscordMessage /\ ~RecognizedAsCommand) =>
    LET body == IF TransformedBody # << >> THEN 1 ELSE 0
        urls == event.message.attachments
    IN /\ Len(said) = body + Len(urls)
       /\ \A k \in 1..Len(said) : said[k].channel = MappedIrcChannel
       /\ \E name \in ShownNames :
            /\ body = 1 =>
                 said[1].text = << "<" >> \o name \o << ">", " " >> \o TransformedBody
            /\ \A k \in 1..Len(urls) :
                 said[body + k].text = << "<" >> \o name \o << ">", " " >> \o urls[k]

\* A body and two different attachments.
C4_Witness ==
  /\ TransformedDiscordMessage
  /\ ~RecognizedAsCommand
  /\ TransformedBody # << >>
  /\ event.message.attachments = << << "u", "/", "2" >>, << "u", "/", "1" >> >>
  /\ Len(said) = 3

\* C5 as stated: for every mapped Discord channel c of a constructed bot, the
\* inverse mapping of the forward mapping of c is c lower-cased.
C5_RoundTripIsLowercase ==
  phase \in {"constructed", "connected"} =>
    \A i \in 1..Len(options.channelMapping) :
      LET c == options.channelMapping[i][1]
      IN Get(invertedMapping, Get(channelMapping, c)) = toLowerCase(c)

\* C5 as amended: the inverse mapping of the forward mapping of c is a Discord
\* channel written exactly as in the options (it is not lower-cased) that is
\* mapped to the same IRC channel as c, and it is c itself whenever no other
\* Discord channel is mapped to that IRC channel.
C5_RoundTripKeepsTheKey ==
  phase \in {"constructed", "connected"} =>
    \A i \in 1..Len(options.channelMapping) :
      LET c == options.channelMapping[i][1]
          d == Get(invertedMapping, Get(channelMapping, c))
      IN /\ \E j \in 1..Len(options.channelMapping) : options.channelMapping[j][1] = d
         /\ Get(channelMapping, d) = Get(channelMapping, c)
         /\ (\A j \in 1..Len(options.channelMapping) :
               j # i => Get(channelMapping, options.channelMapping[j][1])
                          # Get(channelMapping, c))
            => d = c

\* A bot constructed from two pairs, one with a capitalised Discord key, one with
\* a capitalised IRC channel and a join key.
C5_Witness ==
  /\ phase = "constructed"
  /\ options.channelMapping =
       << << << "#", "O", "p", "s" >>, << "#", "I", "r", "c", " ", "p", "w" >> >>,
          << Str_dev, Str_fm >> >>
  /\ Get(invertedMapping, Get(channelMapping, << "#", "O", "p", "s" >>))
       = << "#", "O", "p", "s" >>
  /\ Get(invertedMapping, Str_irc) = << "#", "O", "p", "s" >>

\* The text sendToDiscord is called with for the IRC event that was handled last.
RelayedIrcText ==
  CASE event.type = "message" -> event.text
    [] event.type = "notice" -> << "*" >> \o event.text \o << "*" >>
    [] event.type = "action" -> << "_" >> \o event.text \o << "_" >>

\* The IRC event's channel, lower-cased, is a key of the inverse mapping, and a
\* Discord channel of type text has the mapped name.
IrcEventWithLiveTarget ==
  /\ event.type \in {"message", "notice", "action"}
  /\ \E i \in 1..Len(invertedMapping) :
       /\ invertedMapping[i][1] = toLowerCase(event.to)
       /\ \E c \in 1..Len(DiscordChannels) :
            /\ DiscordChannels[c].type = "text"
            /\ << "#" >> \o DiscordChannels[c].name = invertedMapping[i][2]

\* The ids of the text channels the event's IRC channel is mapped to.
LiveTargets ==
  {DiscordChannels[c].id : c \in
     {c \in 1..Len(DiscordChannels) :
        /\ DiscordChannels[c].type = "text"
        /\ \E i \in 1..Len(invertedMapping) :
             /\ invertedMapping[i][1] = toLowerCase(event.to)
             /\ << "#" >> \o DiscordChannels[c].name = invertedMapping[i][2]}}

\* C6 as stated: an IRC message on a mapped channel whose Discord text channel
\* exists leads to exactly one sendMessage call, to that channel, with the text
\* **<author>** and the transformed body; the channel's letter case plays no part.
C6_MappedMessageSentOnce ==
  (IrcEventWithLiveTarget /\ event.type = "message") =>
    /\ Len(sent) = 1
    /\ sent[1].channel \in LiveTargets
    /\ sent[1].text =
         << "*", "*", "<" >> \o event.author \o << ">", "*", "*", " " >>
           \o ReplaceMentions(event.text, 1)

\* The mention a token stands for under the rule of C7, the token itself (with
\* its @) when the rule leaves it unchanged.
C7_RuleFor(match) ==
  LET token == Suffix(match, 2)
      byNick == {m \in 1..Len(GuildMembers) : GuildMembers[m].nickname = token}
      byName == {u \in 1..Len(DiscordUsers) : DiscordUsers[u].username = token}
      free == {u \in byName :
                 \A m \in 1..Len(GuildMembers) :
                   GuildMembers[m].id = DiscordUsers[u].id
                     => GuildMembers[m].nickname \in {Undefined, token}}
  IN IF byNick # {}
       THEN MemberToString(CHOOSE m \in byNick : \A n \in byNick : m <= n)
     ELSE IF free # {}
       THEN UserToString(CHOOSE u \in free : \A v \in free : u <= v)
     ELSE match

RECURSIVE C7_Rewritten(_, _)
C7_Rewritten(s, i) ==
  IF i > Len(s) THEN << >>
  ELSE LET n == MentionAt(s, i) IN
       IF n = 0 THEN << s[i] >> \o C7_Rewritten(s, i + 1)
       ELSE C7_RuleFor(SubSeq(s, i, i + n - 1)) \o C7_Rewritten(s, i + n)

\* C7 as stated: in the text sent to Discord every @token is a mention exactly
\* when a member has the token as nickname or, no nickname matching, a user has
\* it as username and that user's guild nickname is unset or equal to the token;
\* every other token is left unchanged.
C7_MentionRule ==
  IrcEventWithLiveTarget =>
    /\ Len(sent) = 1
    /\ sent[1].text =
         << "*", "*", "<" >> \o event.author \o << ">", "*", "*", " " >>
           \o C7_Rewritten(RelayedIrcText, 1)

\* C8: with nick colours on, the name in every body and attachment line is
\* wrapped in the colour at index (code of the first character + length) mod 12
\* of the colour list, an index in 0..11, whatever happened before.
C8_ColourFromFirstCharAndLength ==
  (TransformedDiscordMessage /\ ~RecognizedAsCommand /\ ircNickColor) =>
    LET index == (CharCode(AuthorName[1]) + Len(AuthorName)) % 12
        opening == << "<" >> \o NickColorCodes[index + 1] \o AuthorName \o << SI, ">", " " >>
    IN /\ index \in 0..11
       /\ ColorIndex(AuthorName) = index
       /\ \A k \in 1..Len(said) :
            /\ Len(said[k].text) >= Len(opening)
            /\ SubSeq(said[k].text, 1, Len(opening)) = opening

\* Two coloured lines for the member whose nickname is Al (colour 7 of 0..11).
C8_Witness ==
  /\ TransformedDiscordMessage
  /\ ~RecognizedAsCommand
  /\ ircNickColor
  /\ event.message.author.id = << "2" >>
  /\ Len(said) = 2
  /\ SubSeq(said[2].text, 1, 8) = << "<", ETX, "1", "3", "A", "l", SI, ">" >>

\* The configuration is invalid in one of the ways C9 lists.
C9_InvalidConfiguration ==
  \/ options.missing # {}
  \/ Len(options.channelMapping) < 1
  \/ \E i \in 1..Len(options.channelMapping) :
       \/ options.channelMapping[i][1] = << >>
       \/ options.channelMapping[i][2] = << >>
       \/ options.channelMapping[i][2][1] = " "

C10_NicknameElseUsername ==
  TransformedDiscordMessage =>
    LET shown ==
          IF options.ircNickColor = "false"
            THEN {AuthorName}
            ELSE {NickColorCodes[k] \o AuthorName \o << SI >> : k \in 1..Len(NickColorCodes)}
        payloads ==
          {TransformedBody} \cup
          {event.message.attachments[k] : k \in 1..Len(event.message.attachments)}
    IN IF RecognizedAsCommand
         THEN said[1].text = CommandPrelude \o AuthorName \o << ":" >>
         ELSE \A k \in 1..Len(said) :
                \E name \in shown, payload \in payloads :
                  said[k].text = << "<" >> \o name \o << ">", " " >> \o payload

\* A body and an attachment of the member whose nickname is Al, ircNickColor
\* being absent from the options.
C10_Witness ==
  /\ TransformedDiscordMessage
  /\ ~RecognizedAsCommand
  /\ options.ircNickColor = "absent"
  /\ event.message.author.id = << "2" >>
  /\ event.message.content = << "h", "i" >>
  /\ Len(said) = 2
  /\ said[1].text = << "<", ETX, "1", "3", "A", "l", SI, ">", " ", "h", "i" >>

\* The IRC event's channel, lower-cased, is a key of the inverse mapping, and no
\* Discord channel of type text has the mapped name.
C11_IrcEventWithoutTextChannel ==
  /\ event.type \in {"message", "notice", "action"}
  /\ \E i \in 1..Len(invertedMapping) :
       /\ invertedMapping[i][1] = toLowerCase(event.to)
       /\ \A c \in 1..Len(DiscordChannels) :
            DiscordChannels[c].type = "text"
              => << "#" >> \o DiscordChannels[c].name # invertedMapping[i][2]

\* C11: an IRC message on a mapped channel whose Discord channel is not there as
\* a text channel (a voice channel of that name does not count) leads to no
\* sendMessage and no say call, to one logger.info call and to no error; and it
\* is not retried: whenever sendMessage is called, the event being handled is one
\* whose text channel exists.
C11_UnavailableTargetDropped ==
  /\ C11_IrcEventWithoutTextChannel =>
       (sent = << >> /\ said = << >> /\ logged = 1 /\ threw = "")
  /\ sent # << >> => IrcEventWithLiveTarget

\* A message to #fm, which is mapped to #vc, a name only a voice channel has;
\* its text holds a mention that would raise an error were it looked at.
C11_Witness ==
  /\ event.type = "message"
  /\ event.to = Str_fm
  /\ Get(invertedMapping, Str_fm) = Str_vc
  /\ event.text = << "@", "c", "a", "t" >>
  /\ sent = << >>
  /\ logged = 1
  /\ threw = ""

\* C12 as stated: every relayed Discord message gives one line <name> url per
\* attachment, after the two command lines when its body is a command and after
\* the body line, if any, otherwise.
C12_AttachmentLinesAlways ==
  TransformedDiscordMessage =>
    LET urls == event.message.attachments
        lead == IF RecognizedAsCommand THEN 2
                ELSE IF TransformedBody # << >> THEN 1 ELSE 0
    IN /\ Len(said) = lead + Len(urls)
       /\ \E name \in ShownNames :
            \A k \in 1..Len(urls) :
              said[lead + k].text = << "<" >> \o name \o << ">", " " >> \o urls[k]

\* C12 as amended: a relayed Discord message that is no command gives one line
\* <name> url per attachment, whether or not a body line was said before them; a
\* command gives its two lines and no line for any attachment.
C12_AttachmentLinesUnlessCommand ==
  TransformedDiscordMessage =>
    LET urls == IF RecognizedAsCommand THEN << >> ELSE event.message.attachments
        lead == IF RecognizedAsCommand THEN 2
                ELSE IF TransformedBody # << >> THEN 1 ELSE 0
    IN /\ Len(said) = lead + Len(urls)
       /\ \A k \in 1..Len(said) : said[k].channel = MappedIrcChannel
       /\ \E name \in ShownNames :
            \A k \in 1..Len(urls) :
              said[lead + k].text = << "<" >> \o name \o << ">", " " >> \o urls[k]

\* A command with two attachments: two lines are said, none for an attachment.
C12_Witness ==
  /\ TransformedDiscordMessage
  /\ RecognizedAsCommand
  /\ event.message.author.id = << "3" >>
  /\ event.message.attachments = << << "u", "/", "1" >>, << "u", "/", "2" >> >>
  /\ Len(said) = 2
  /\ said[2].text = TransformedBody

\* A string without the white space at its two ends.
C13_Trimmed(s) ==
  LET inked == {i \in 1..Len(s) : ~IsSpace(s[i])}
  IN IF inked = {} THEN << >>
     ELSE SubSeq(s, CHOOSE i \in inked : \A j \in inked : i <= j,
                    CHOOSE i \in inked : \A j \in inked : j <= i)

\* C13 as stated: a relayable Discord message whose transformed body, trimmed,
\* starts with a command character is relayed as a command: two lines, the
\* prelude and then the body.
C13_CommandAfterTrim ==
  ( /\ TransformedDiscordMessage
    /\ C13_Trimmed(TransformedBody) # << >>
    /\ C13_Trimmed(TransformedBody)[1]
         \in {commandCharacters[i] : i \in 1..Len(commandCharacters)} )
  => /\ Len(said) = 2
     /\ said[1].text = CommandPrelude \o AuthorName \o << ":" >>
     /\ said[2].text \in {TransformedBody, C13_Trimmed(TransformedBody)}

\* The body of the Discord message holds a channel reference <#id> whose id is
\* the id of no channel.
C14_HasUnresolvedChannelRef ==
  \E i \in 1..Len(event.message.content) :
    LET n == ChannelRefAt(event.message.content, i)
    IN /\ n # 0
       /\ \A c \in 1..Len(DiscordChannels) :
            DiscordChannels[c].id # SubSeq(event.message.content, i + 2, i + n - 2)

\* C14: a Discord message in a mapped channel whose body holds a channel
\* reference that resolves to no channel leads to no say call at all: no body
\* line, no prelude, no attachment line.
C14_UnresolvedReferenceSaysNothing ==
  ( /\ event.type = "discord"
    /\ \E i \in 1..Len(channelMapping) :
         channelMapping[i][1] = << "#" >> \o event.message.channel
    /\ C14_HasUnresolvedChannelRef )
  => (said = << >> /\ sent = << >>)

\* A reference that resolves, then one that does not, with an attachment: the
\* transform raised an error and nothing was said.
C14_Witness ==
  /\ RelayableDiscordMessage
  /\ event.message.content = << "<", "#", "7", ">", "<", "#", "9", ">" >>
  /\ Len(event.message.attachments) = 1
  /\ threw = "TypeError"
  /\ said = << >>

\* The say and sendMessage calls of the event just delivered are those the event
\* and the options the bot was constructed from give, whatever was handled before.
C15_DeterminedByEventAndOptions ==
  LET forward == BuildChannelMapping(options.channelMapping, 1, << >>)
  IN /\ event'.type = "discord" =>
          said' = sendToIRC(forward, CommandCharactersOption(options),
                            NickColorOption(options), event'.message).said
     /\ event'.type \in {"message", "notice", "action"} =>
          sent' = sendToDiscord(Invert(forward), event'.author, event'.to,
                                RelayedIrcText').sent

\* C15 as stated: once the bot is connected, no step changes the forward or the
\* inverse mapping, the calls made for an event are determined by the event and
\* the options alone, and no event, dropped or failed, ends the relay: the bot
\* stays connected and takes the events that follow.
C15_FailuresAreContained ==
  [][phase = "connected" =>
       /\ channelMapping' = channelMapping
       /\ invertedMapping' = invertedMapping
       /\ C15_DeterminedByEventAndOptions
       /\ phase' = "connected"]_vars

\* The part of C15 that does not depend on what becomes of an uncaught error.
C15_MappingsFixedAndCallsDetermined ==
  [][phase = "connected" =>
       /\ channelMapping' = channelMapping
       /\ invertedMapping' = invertedMapping
       /\ C15_DeterminedByEventAndOptions]_vars

\* The three mention tokens of a user: <@id>, <@!id> and <@&id>.
MentionTokens(user) ==
  { << "<", "@" >> \o mid \o user.id \o << ">" >> : mid \in { << >>, << "!" >>, << "&" >> } }

\* C16 as stated: the display name put in for a mention is not rewritten by the
\* rules that follow: for every user of the message's mentions with a token in
\* the body, @ and the user's display name stand verbatim in the transformed body.
C16_InsertedNamesStayVerbatim ==
  TransformedDiscordMessage =>
    \A k \in 1..Len(event.message.mentions) :
      (\E token \in MentionTokens(event.message.mentions[k]) :
         IndexOf(event.message.content, token) # 0)
      => IndexOf(TransformedBody,
                 << "@" >> \o DisplayNameOf(event.message.mentions[k])) # 0

\* C17 as stated: no mention token of a user of the message's mentions is left
\* in the transformed body.
C17_NoListedMentionRemains ==
  TransformedDiscordMessage =>
    \A k \in 1..Len(event.message.mentions) :
      \A token \in MentionTokens(event.message.mentions[k]) :
        IndexOf(TransformedBody, token) = 0

C19_InverseIsExactReverse ==
  phase \in {"constructed", "connected"} =>
    \A k \in 1..Len(channelMapping) :
      Get(invertedMapping, channelMapping[k][2]) = channelMapping[k][1]

\* The inverse mapping never holds more than the reverse of the forward mapping:
\* each of its entries is a forward entry turned round.
C19_InverseEntriesAreForwardEntries ==
  \A k \in 1..Len(invertedMapping) :
    Get(channelMapping, invertedMapping[k][2]) = invertedMapping[k][1]

\* C20: what a notice or an action leads to is what the message listener does
\* for the same author and channel with the body *text* or _text_: the same
\* lookup and drops, the same channel, the same mention rewriting (of the
\* wrapped body), at most one sendMessage call.
C20_NoticeAndActionAsWrappedMessage ==
  event.type \in {"notice", "action"} =>
    LET mark == IF event.type = "notice" THEN << "*" >> ELSE << "_" >>
        wrapped == mark \o event.text \o mark
        r == sendToDiscord(invertedMapping, event.author, event.to, wrapped)
    IN /\ sent = r.sent
       /\ logged = r.info
       /\ threw = r.threw
       /\ Len(sent) <= 1
       /\ IrcEventWithLiveTarget /\ threw = "" =>
            /\ Len(sent) = 1
            /\ sent[1].channel \in LiveTargets
            /\ sent[1].text =
                 << "*", "*", "<" >> \o event.author \o << ">", "*", "*", " " >>
                   \o ReplaceMentions(wrapped, 1)

\* A notice naming a member by nickname: the asterisks are no part of the token,
\* which becomes a mention between them.
C20_Witness ==
  /\ event.type = "notice"
  /\ event.to = << "#", "I", "R", "C" >>
  /\ event.text = << "@", "A", "l" >>
  /\ Len(sent) = 1
  /\ sent[1].text =
       << "*", "*", "<", "n", "e", "o", ">", "*", "*", " ",
          "*", "<", "@", "!", "2", ">", "*" >>

\* The number of characters of a raw IRC entry before its first space.
C21_TokenLength(raw) ==
  CHOOSE n \in 0..Len(raw) :
    /\ \A k \in 1..n : raw[k] # " "
    /\ n = Len(raw) \/ raw[n + 1] = " "

\* A name is the lower-cased first token of the raw entry, and holds neither a
\* space, nor an upper-case letter, nor the join key that follows the token.
C21_IsStoredNameOf(name, raw) ==
  LET n == C21_TokenLength(raw)
      secret == SubSeq(raw, n + 2, Len(raw))
  IN /\ Len(name) = n
     /\ \A k \in 1..n : name[k] = LowerChar(raw[k])
     /\ \A k \in 1..Len(name) : name[k] # " " /\ ~IsUpper(name[k])
     /\ secret # << >> => IndexOf(name, secret) = 0

\* C21: the IRC name stored for a Discord channel is the lower-cased first token
\* of its raw entry; every line said for a message of that Discord channel goes
\* to exactly that name; and no channel a line is said to or a join is issued
\* for holds a space, an upper-case letter or the join key.
C21_TargetsAreStoredNames ==
  /\ phase \in {"constructed", "connected", "crashed"} =>
       /\ Len(channelMapping) = Len(options.channelMapping)
       /\ \A i \in 1..Len(channelMapping) :
            /\ channelMapping[i][1] = options.channelMapping[i][1]
            /\ C21_IsStoredNameOf(channelMapping[i][2], options.channelMapping[i][2])
  /\ \A k \in 1..Len(said) :
       \E i \in 1..Len(options.channelMapping) :
         /\ options.channelMapping[i][1] = << "#" >> \o event.message.channel
         /\ C21_IsStoredNameOf(said[k].channel, options.channelMapping[i][2])
  /\ \A k \in 1..Len(joined) :
       \E i \in 1..Len(options.channelMapping) :
         C21_IsStoredNameOf(joined[k], options.channelMapping[i][2])

\* The entry #Irc pw for the Discord channel dev: the body and the attachment of
\* a message in dev are said to #irc.
C21_Witness ==
  /\ options.channelMapping =
       << << Str_dev, << "#", "I", "r", "c", " ", "p", "w" >> >> >>
  /\ event.type = "discord"
  /\ event.message.channel = << "d", "e", "v" >>
  /\ Len(said) = 2
  /\ said[1].channel = Str_irc
  /\ said[2].channel = Str_irc

\* The @tokens of a text that are the username of a user who is no member of the
\* guild, no member having the token as nickname.
C22_NonMemberTokens(s) ==
  {i \in 1..Len(s) :
     /\ MentionAt(s, i) # 0
     /\ LET token == SubSeq(s, i + 1, i + MentionAt(s, i) - 1)
        IN /\ \E u \in 1..Len(DiscordUsers) :
                /\ DiscordUsers[u].username = token
                /\ \A m \in 1..Len(GuildMembers) :
                     GuildMembers[m].id # DiscordUsers[u].id
           /\ \A m \in 1..Len(GuildMembers) : GuildMembers[m].nickname # token}

\* C22 as stated: for an IRC event on a mapped channel whose Discord text channel
\* exists, whatever the body, no error is raised and exactly one sendMessage call
\* is made; a body that is one @token naming a user who is no member of the
\* guild is sent with the token as it is.
C22_MentionRewritingIsTotal ==
  IrcEventWithLiveTarget =>
    /\ threw = ""
    /\ Len(sent) = 1
    /\ (event.type = "message" /\ C22_NonMemberTokens(event.text) = {1}
          /\ MentionAt(event.text, 1) = Len(event.text))
       => sent[1].text =
            << "*", "*", "<" >> \o event.author \o << ">", "*", "*", " " >>
              \o event.text

\* The IRC channel, lower-cased, is a key of the inverse mapping: a message on it
\* is looked up successfully.
C23_Bridged(channel) ==
  \E i \in 1..Len(invertedMapping) : invertedMapping[i][1] = toLowerCase(channel)

\* C23 as stated: on an invite to a channel the bot issues one join, for that
\* channel, exactly when a message on the channel would be looked up
\* successfully, and it joins no channel that is not bridged.
C23_InviteAgreesWithMessage ==
  event.type = "invite" =>
    /\ C23_Bridged(event.channel) <=> joined = << event.channel >>
    /\ ~C23_Bridged(event.channel) => joined = << >>

\* The half of C23 that holds: no join is issued for a channel that is not bridged.
C23_JoinsBridgedChannelsOnly ==
  \A k \in 1..Len(joined) : joined[k] = event.channel /\ C23_Bridged(joined[k])

=============================================================================
